---------------------------- MODULE Spec2Model ----------------------------
(***************************************************************************)
(* Memory subsystem of the chat client: the memory store (storage module), *)
(* the retention manager (memoryManager.ts, performSmartCleanup) and the   *)
(* retrieval engine (contextInjection.ts).                                 *)
(*                                                                         *)
(* Time is counted in hours (Date.now() / 3600000).  Importance values are *)
(* fixed-point numbers with three decimals (ImpScale = 1000 per point);    *)
(* decay factors are fixed-point numbers with four decimals.                *)
(***************************************************************************)
EXTENDS Integers, Sequences, FiniteSets, TLC

\* ------------------------------------------------------------------------
\* Bounds of the model
\* ------------------------------------------------------------------------
MaxMem == 3
MaxIds == 2
MaxTime == 2
MaxAccess == 1

\* ------------------------------------------------------------------------
\* Units and program constants
\* ------------------------------------------------------------------------
ImpScale == 1000
FactorScale == 10000
Hour == 1
Day == 24
ManualImportance == 60
AutoImportance == 40
PinnedImportance == 100
MaxImportance == 100
RecencyLimit == 3
DecayMinDelta == 1

Sources == {"auto", "manual"}
DecayRates == {"fast", "normal", "slow"}
CleanupFrequencies == {"after_chat", "daily", "manual"}

Min(a, b) == IF a < b THEN a ELSE b
Max(a, b) == IF a > b THEN a ELSE b
Abs(a) == IF a < 0 THEN 0 - a ELSE a

\* ------------------------------------------------------------------------
\* Decay tables: entry h+1 is the factor after h hours without access.
\* ExpDecay*: exp(-ln(2)/halfLife * h/24), half-life 3, 7 and 30 days.
\* PowDecay*: factor^(h/24), factor 0.95, 0.98 and 0.995 per day.
\* LogBonus: ln(accessCount + 1) * 10, entry accessCount+1.
\* ------------------------------------------------------------------------
ExpDecayFast ==
  <<
    10000, 9904, 9809, 9715, 9622, 9530, 9439, 9348, 9259, 9170, 9082, 8995, 8909, 8824, 8739, 8655,
    8572, 8490, 8409, 8328, 8249, 8170, 8091, 8014, 7937, 7861, 7786, 7711, 7637, 7564, 7492, 7420,
    7349, 7278, 7209, 7139, 7071, 7003, 6936, 6870, 6804, 6739, 6674, 6610, 6547, 6484, 6422, 6361,
    6300, 6239, 6179, 6120, 6062, 6004, 5946, 5889, 5833, 5777, 5721, 5667, 5612, 5559, 5505, 5453,
    5400, 5349, 5297, 5247, 5196, 5147, 5097, 5048, 5000, 4952, 4905, 4858, 4811, 4765, 4719, 4674,
    4629, 4585, 4541, 4498, 4454, 4412, 4370, 4328, 4286, 4245, 4204, 4164, 4124, 4085, 4046, 4007,
    3969, 3930, 3893, 3856, 3819, 3782, 3746, 3710, 3674, 3639, 3604, 3570, 3536, 3502, 3468, 3435,
    3402, 3369, 3337, 3305, 3273, 3242, 3211, 3180, 3150, 3120, 3090, 3060, 3031, 3002, 2973, 2945,
    2916, 2888, 2861, 2833, 2806, 2779, 2753, 2726, 2700, 2674, 2649, 2623, 2598, 2573, 2549, 2524,
    2500, 2476, 2452, 2429, 2406, 2383, 2360, 2337, 2315, 2293, 2271, 2249, 2227, 2206, 2185, 2164,
    2143, 2123, 2102, 2082, 2062, 2042, 2023, 2003, 1984, 1965, 1946, 1928, 1909, 1891, 1873, 1855,
    1837, 1820, 1802, 1785, 1768, 1751, 1734, 1717, 1701, 1685, 1669, 1653, 1637, 1621, 1606, 1590,
    1575, 1560, 1545, 1530, 1515, 1501, 1487, 1472, 1458
  >>

ExpDecayNormal ==
  <<
    10000, 9959, 9918, 9877, 9836, 9796, 9755, 9715, 9675, 9635, 9596, 9556, 9517, 9478, 9439, 9400,
    9361, 9323, 9284, 9246, 9208, 9170, 9132, 9095, 9057, 9020, 8983, 8946, 8909, 8872, 8836, 8799,
    8763, 8727, 8691, 8655, 8620, 8584, 8549, 8514, 8479, 8444, 8409, 8374, 8340, 8306, 8271, 8237,
    8203, 8170, 8136, 8102, 8069, 8036, 8003, 7970, 7937, 7904, 7872, 7839, 7807, 7775, 7743, 7711,
    7679, 7648, 7616, 7585, 7554, 7523, 7492, 7461, 7430, 7399, 7369, 7339, 7308, 7278, 7248, 7218,
    7189, 7159, 7130, 7100, 7071, 7042, 7013, 6984, 6955, 6927, 6898, 6870, 6841, 6813, 6785, 6757,
    6730, 6702, 6674, 6647, 6619, 6592, 6565, 6538, 6511, 6484, 6457, 6431, 6404, 6378, 6352, 6326,
    6300, 6274, 6248, 6222, 6196, 6171, 6146, 6120, 6095, 6070, 6045, 6020, 5995, 5971, 5946, 5922,
    5897, 5873, 5849, 5825, 5801, 5777, 5753, 5729, 5706, 5682, 5659, 5636, 5612, 5589, 5566, 5543,
    5520, 5498, 5475, 5453, 5430, 5408, 5385, 5363, 5341, 5319, 5297, 5276, 5254, 5232, 5211, 5189,
    5168, 5147, 5125, 5104, 5083, 5062, 5041, 5021, 5000, 4979, 4959, 4938, 4918, 4898, 4878, 4858,
    4838, 4818, 4798, 4778, 4758, 4739, 4719, 4700, 4681, 4661, 4642, 4623, 4604, 4585, 4566, 4547,
    4529, 4510, 4491, 4473, 4454, 4436, 4418, 4400, 4382
  >>

ExpDecaySlow ==
  <<
    10000, 9990, 9981, 9971, 9962, 9952, 9942, 9933, 9923, 9914, 9904, 9895, 9885, 9876, 9866, 9857,
    9847, 9838, 9828, 9819, 9809, 9800, 9790, 9781, 9772, 9762, 9753, 9743, 9734, 9725, 9715, 9706,
    9697, 9687, 9678, 9669, 9659, 9650, 9641, 9632, 9622, 9613, 9604, 9594, 9585, 9576, 9567, 9558,
    9548, 9539, 9530, 9521, 9512, 9503, 9493, 9484, 9475, 9466, 9457, 9448, 9439, 9430, 9421, 9412,
    9402, 9393, 9384, 9375, 9366, 9357, 9348, 9339, 9330, 9321, 9312, 9303, 9294, 9286, 9277, 9268,
    9259, 9250, 9241, 9232, 9223, 9214, 9205, 9197, 9188, 9179, 9170, 9161, 9152, 9144, 9135, 9126,
    9117, 9108, 9100, 9091, 9082, 9073, 9065, 9056, 9047, 9039, 9030, 9021, 9013, 9004, 8995, 8987,
    8978, 8969, 8961, 8952, 8943, 8935, 8926, 8918, 8909, 8900, 8892, 8883, 8875, 8866, 8858, 8849,
    8841, 8832, 8824, 8815, 8807, 8798, 8790, 8781, 8773, 8764, 8756, 8748, 8739, 8731, 8722, 8714,
    8706, 8697, 8689, 8680, 8672, 8664, 8655, 8647, 8639, 8630, 8622, 8614, 8606, 8597, 8589, 8581,
    8572, 8564, 8556, 8548, 8539, 8531, 8523, 8515, 8507, 8498, 8490, 8482, 8474, 8466, 8458, 8450,
    8441, 8433, 8425, 8417, 8409, 8401, 8393, 8385, 8377, 8369, 8361, 8352, 8344, 8336, 8328, 8320,
    8312, 8304, 8296, 8288, 8280, 8272, 8265, 8257, 8249
  >>

PowDecayFast ==
  <<
    10000, 9979, 9957, 9936, 9915, 9894, 9873, 9852, 9830, 9809, 9789, 9768, 9747, 9726, 9705, 9685,
    9664, 9643, 9623, 9602, 9582, 9561, 9541, 9520, 9500, 9480, 9459, 9439, 9419, 9399, 9379, 9359,
    9339, 9319, 9299, 9279, 9259, 9240, 9220, 9200, 9181, 9161, 9141, 9122, 9102, 9083, 9064, 9044,
    9025, 9006, 8987, 8967, 8948, 8929, 8910, 8891, 8872, 8853, 8834, 8815, 8796, 8778, 8759, 8740,
    8722, 8703, 8684, 8666, 8647, 8629, 8610, 8592, 8574, 8555, 8537, 8519, 8501, 8483, 8465, 8446,
    8428, 8410, 8392, 8375, 8357, 8339, 8321, 8303, 8286, 8268, 8250, 8233, 8215, 8197, 8180, 8162,
    8145, 8128, 8110, 8093, 8076, 8058, 8041, 8024, 8007, 7990, 7973, 7956, 7939, 7922, 7905, 7888,
    7871, 7854, 7838, 7821, 7804, 7788, 7771, 7754, 7738, 7721, 7705, 7688, 7672, 7656, 7639, 7623,
    7607, 7590, 7574, 7558, 7542, 7526, 7510, 7494, 7478, 7462, 7446, 7430, 7414, 7398, 7382, 7367,
    7351, 7335, 7320, 7304, 7288, 7273, 7257, 7242, 7226, 7211, 7195, 7180, 7165, 7149, 7134, 7119,
    7104, 7089, 7073, 7058, 7043, 7028, 7013, 6998, 6983, 6968, 6954, 6939, 6924, 6909, 6894, 6880,
    6865, 6850, 6836, 6821, 6807, 6792, 6778, 6763, 6749, 6734, 6720, 6705, 6691, 6677, 6663, 6648,
    6634, 6620, 6606, 6592, 6578, 6564, 6550, 6536, 6522
  >>

PowDecayNormal ==
  <<
    10000, 9992, 9983, 9975, 9966, 9958, 9950, 9941, 9933, 9925, 9916, 9908, 9899, 9891, 9883, 9875,
    9866, 9858, 9850, 9841, 9833, 9825, 9817, 9808, 9800, 9792, 9784, 9775, 9767, 9759, 9751, 9742,
    9734, 9726, 9718, 9710, 9702, 9693, 9685, 9677, 9669, 9661, 9653, 9645, 9636, 9628, 9620, 9612,
    9604, 9596, 9588, 9580, 9572, 9564, 9556, 9548, 9540, 9532, 9523, 9515, 9507, 9499, 9491, 9483,
    9476, 9468, 9460, 9452, 9444, 9436, 9428, 9420, 9412, 9404, 9396, 9388, 9380, 9372, 9365, 9357,
    9349, 9341, 9333, 9325, 9317, 9309, 9302, 9294, 9286, 9278, 9270, 9263, 9255, 9247, 9239, 9231,
    9224, 9216, 9208, 9200, 9193, 9185, 9177, 9169, 9162, 9154, 9146, 9139, 9131, 9123, 9116, 9108,
    9100, 9093, 9085, 9077, 9070, 9062, 9054, 9047, 9039, 9032, 9024, 9016, 9009, 9001, 8994, 8986,
    8979, 8971, 8963, 8956, 8948, 8941, 8933, 8926, 8918, 8911, 8903, 8896, 8888, 8881, 8873, 8866,
    8858, 8851, 8844, 8836, 8829, 8821, 8814, 8806, 8799, 8792, 8784, 8777, 8769, 8762, 8755, 8747,
    8740, 8733, 8725, 8718, 8711, 8703, 8696, 8689, 8681, 8674, 8667, 8659, 8652, 8645, 8638, 8630,
    8623, 8616, 8608, 8601, 8594, 8587, 8580, 8572, 8565, 8558, 8551, 8544, 8536, 8529, 8522, 8515,
    8508, 8500, 8493, 8486, 8479, 8472, 8465, 8458, 8451
  >>

PowDecaySlow ==
  <<
    10000, 9998, 9996, 9994, 9992, 9990, 9987, 9985, 9983, 9981, 9979, 9977, 9975, 9973, 9971, 9969,
    9967, 9965, 9962, 9960, 9958, 9956, 9954, 9952, 9950, 9948, 9946, 9944, 9942, 9940, 9938, 9935,
    9933, 9931, 9929, 9927, 9925, 9923, 9921, 9919, 9917, 9915, 9913, 9911, 9909, 9906, 9904, 9902,
    9900, 9898, 9896, 9894, 9892, 9890, 9888, 9886, 9884, 9882, 9880, 9878, 9875, 9873, 9871, 9869,
    9867, 9865, 9863, 9861, 9859, 9857, 9855, 9853, 9851, 9849, 9847, 9845, 9843, 9840, 9838, 9836,
    9834, 9832, 9830, 9828, 9826, 9824, 9822, 9820, 9818, 9816, 9814, 9812, 9810, 9808, 9806, 9804,
    9801, 9799, 9797, 9795, 9793, 9791, 9789, 9787, 9785, 9783, 9781, 9779, 9777, 9775, 9773, 9771,
    9769, 9767, 9765, 9763, 9761, 9759, 9757, 9755, 9752, 9750, 9748, 9746, 9744, 9742, 9740, 9738,
    9736, 9734, 9732, 9730, 9728, 9726, 9724, 9722, 9720, 9718, 9716, 9714, 9712, 9710, 9708, 9706,
    9704, 9702, 9700, 9698, 9696, 9694, 9692, 9690, 9688, 9686, 9683, 9681, 9679, 9677, 9675, 9673,
    9671, 9669, 9667, 9665, 9663, 9661, 9659, 9657, 9655, 9653, 9651, 9649, 9647, 9645, 9643, 9641,
    9639, 9637, 9635, 9633, 9631, 9629, 9627, 9625, 9623, 9621, 9619, 9617, 9615, 9613, 9611, 9609,
    9607, 9605, 9603, 9601, 9599, 9597, 9595, 9593, 9591
  >>

LogBonus ==
  <<
    0, 6931, 10986, 13863, 16094, 17918, 19459, 20794, 21972
  >>

\* ------------------------------------------------------------------------
\* State
\* ------------------------------------------------------------------------
VARIABLES
  memories,   \* the stored collection (STORAGE_KEYS.MEMORIES), in store order
  settings,   \* the MemorySettings record
  now,        \* Date.now(), in hours
  nextId,     \* source of fresh ids (crypto.randomUUID)
  last,       \* the last completed operation: name, store before it, results
  retr,       \* the buildContextWithMemories call in progress
  pending     \* calls and writes in flight: the extraction call, the
              \* generateEmbedding calls for new memories, deferred saves

vars == <<memories, settings, now, nextId, last, retr, pending>>

\* what an operation on the store leaves alone
storeFrame == <<settings, now, nextId, retr, pending>>

\* embedding?: number[] -- absent is <<>>, a vector v is <<v>>
NoEmbedding == <<>>
SomeEmbedding(v) == <<v>>
HasEmbedding(m) == m.embedding # <<>> /\ Len(m.embedding[1]) > 0

Ids(mems) == {mems[i].id : i \in 1..Len(mems)}
IndexOf(mems, id) == CHOOSE i \in 1..Len(mems) : mems[i].id = id
Lookup(mems, id) == mems[IndexOf(mems, id)]
Pinned(mems) == SelectSeq(mems, LAMBDA m : m.pinned)
Unpinned(mems) == SelectSeq(mems, LAMBDA m : ~m.pinned)

\* Array.prototype.sort with comparator (a, b) => b.key - a.key: stable,
\* descending by key.  Elements are records with a field key.
RECURSIVE InsertDesc(_, _)
InsertDesc(x, s) ==
  IF s = <<>> THEN <<x>>
  ELSE IF Head(s).key >= x.key THEN <<Head(s)>> \o InsertDesc(x, Tail(s))
  ELSE <<x>> \o s

RECURSIVE SortDesc(_)
SortDesc(s) ==
  IF s = <<>> THEN <<>>
  ELSE InsertDesc(s[Len(s)], SortDesc(SubSeq(s, 1, Len(s) - 1)))

\* Array.prototype.slice(0, n)
Slice(s, n) == SubSeq(s, 1, Min(Max(n, 0), Len(s)))

Keyed(items, keys) == [i \in 1..Len(items) |-> [key |-> keys[i], item |-> items[i]]]
Items(pairs) == [i \in 1..Len(pairs) |-> pairs[i].item]

\* ------------------------------------------------------------------------
\* Importance model
\* ------------------------------------------------------------------------
ExpDecay(rate, h) ==
  CASE rate = "fast" -> ExpDecayFast[h + 1]
    [] rate = "normal" -> ExpDecayNormal[h + 1]
    [] rate = "slow" -> ExpDecaySlow[h + 1]

PowDecay(rate, h) ==
  CASE rate = "fast" -> PowDecayFast[h + 1]
    [] rate = "normal" -> PowDecayNormal[h + 1]
    [] rate = "slow" -> PowDecaySlow[h + 1]

Clamp(x) == Max(0, Min(MaxImportance * ImpScale, x))

\* variant: the factor grows with the time since the last access
calculateCurrentImportanceGrowing(m, rate, t) ==
  IF m.pinned THEN PinnedImportance * ImpScale
  ELSE Clamp((m.importance * (2 * FactorScale - ExpDecay(rate, t - m.lastAccessedAt)))
               \div FactorScale)

\* memoryManager.ts: stored importance decayed since lastAccessedAt
calculateCurrentImportance(m, rate, t) ==
  IF m.pinned THEN PinnedImportance * ImpScale
  ELSE Clamp((m.importance * ExpDecay(rate, t - m.lastAccessedAt)) \div FactorScale)

\* variant: the pinned memory is scored like any other
calculateImportanceIgnoringPinned(m, rate, t) ==
  LET baseScore == (IF m.source = "manual" THEN ManualImportance ELSE AutoImportance) * ImpScale
      decayedScore == (baseScore * PowDecay(rate, t - m.lastAccessedAt)) \div FactorScale
      accessBonus == LogBonus[m.accessCount + 1]
      finalScore == Clamp(decayedScore + accessBonus)
  IN ((finalScore + 50) \div 100) * 100

\* storage: base score by source, decayed, plus the access bonus, rounded
\* to one decimal place
calculateImportance(m, rate, t) ==
  IF m.pinned THEN PinnedImportance * ImpScale
  ELSE LET baseScore == (IF m.source = "manual" THEN ManualImportance ELSE AutoImportance) * ImpScale
           decayedScore == (baseScore * PowDecay(rate, t - m.lastAccessedAt)) \div FactorScale
           accessBonus == LogBonus[m.accessCount + 1]
           finalScore == Clamp(decayedScore + accessBonus)
       IN ((finalScore + 50) \div 100) * 100

\* ------------------------------------------------------------------------
\* Memory store (storage module)
\* ------------------------------------------------------------------------
\* variant: every new memory starts at the same importance
NewMemoryFlatImportance(id, content, source, t) ==
  [id |-> id, content |-> content, source |-> source,
   createdAt |-> t, updatedAt |-> t, embedding |-> NoEmbedding,
   importance |-> AutoImportance * ImpScale,
   accessCount |-> 0, lastAccessedAt |-> t, pinned |-> FALSE]

NewMemory(id, content, source, t) ==
  [id |-> id, content |-> content, source |-> source,
   createdAt |-> t, updatedAt |-> t, embedding |-> NoEmbedding,
   importance |-> (IF source = "manual" THEN ManualImportance ELSE AutoImportance) * ImpScale,
   accessCount |-> 0, lastAccessedAt |-> t, pinned |-> FALSE]

Done(op, id, ret) == [op |-> op, before |-> memories, id |-> id, ret |-> ret]

addMemory(content, source) ==
  /\ Len(memories) < MaxMem
  /\ nextId <= MaxIds
  /\ memories' = <<NewMemory(nextId, content, source, now)>> \o memories
  /\ nextId' = nextId + 1
  /\ last' = Done("addMemory", nextId, <<>>)
  /\ UNCHANGED <<settings, now, retr, pending>>

updateMemoryResult(mems, id, content, t) ==
  IF id \in Ids(mems)
  THEN [mems EXCEPT ![IndexOf(mems, id)] = [@ EXCEPT !.content = content, !.updatedAt = t]]
  ELSE mems

updateMemory(id, content) ==
  /\ memories' = updateMemoryResult(memories, id, content, now)
  /\ last' = Done("updateMemory", id, <<content>>)
  /\ UNCHANGED storeFrame

deleteMemory(id) ==
  /\ memories' = SelectSeq(memories, LAMBDA m : m.id # id)
  /\ last' = Done("deleteMemory", id, <<>>)
  /\ UNCHANGED storeFrame

clearAllMemories ==
  /\ memories' = <<>>
  /\ last' = Done("clearAllMemories", 0, <<>>)
  /\ UNCHANGED storeFrame

\* storage.updateMemoryEmbedding: attaches the vector, nothing else
updateMemoryEmbedding(id, vec) ==
  /\ memories' = IF id \in Ids(memories)
                 THEN [memories EXCEPT ![IndexOf(memories, id)].embedding = SomeEmbedding(vec)]
                 ELSE memories
  /\ last' = Done("updateMemoryEmbedding", id, <<vec>>)
  /\ UNCHANGED storeFrame

\* variant: the access is recorded on every stored memory
recordMemoriesAccessOnAll(mems, ids, t) ==
  IF ids = {} THEN mems
  ELSE [i \in 1..Len(mems) |->
          [mems[i] EXCEPT !.accessCount = @ + 1, !.lastAccessedAt = t, !.updatedAt = t]]

recordMemoriesAccessResult(mems, ids, t) ==
  IF ids = {} THEN mems
  ELSE [i \in 1..Len(mems) |->
          IF mems[i].id \in ids
          THEN [mems[i] EXCEPT !.accessCount = @ + 1, !.lastAccessedAt = t, !.updatedAt = t]
          ELSE mems[i]]

toggleMemoryPinned(id) ==
  /\ memories' = IF id \in Ids(memories)
                 THEN [memories EXCEPT ![IndexOf(memories, id)] =
                         [@ EXCEPT !.pinned = ~@, !.updatedAt = now]]
                 ELSE memories
  /\ last' = Done("toggleMemoryPinned", id, <<>>)
  /\ UNCHANGED storeFrame

\* ------------------------------------------------------------------------
\* Retention manager
\* ------------------------------------------------------------------------
Threshold(st) == st.importanceThreshold * ImpScale

\* memoryManager.ts pruneMemories: the collection it keeps
\* variant: the threshold filter without the pinned exemption
pruneFilterUnpinnedOnly(mems, st) ==
  SelectSeq(mems, LAMBDA m : m.importance >= Threshold(st))

pruneFilter(mems, st) ==
  SelectSeq(mems, LAMBDA m : m.importance >= Threshold(st) \/ m.pinned)

\* variant: the cap keeps the least important unpinned memories
pruneKeepLeastImportant(mems, st) ==
  LET filtered == pruneFilter(mems, st)
      pinned == Pinned(filtered)
      unpinned == Unpinned(filtered)
      sorted == Items(SortDesc(Keyed(unpinned, [i \in 1..Len(unpinned) |-> 0 - unpinned[i].importance])))
      remainingSlots == Max(0, st.maxMemoryCount - Len(pinned))
  IN IF Len(filtered) > st.maxMemoryCount
     THEN pinned \o Slice(sorted, remainingSlots)
     ELSE filtered

pruneKeep(mems, st) ==
  LET filtered == pruneFilter(mems, st)
      pinned == Pinned(filtered)
      unpinned == Unpinned(filtered)
      sorted == Items(SortDesc(Keyed(unpinned, [i \in 1..Len(unpinned) |-> unpinned[i].importance])))
      remainingSlots == Max(0, st.maxMemoryCount - Len(pinned))
  IN IF Len(filtered) > st.maxMemoryCount
     THEN pinned \o Slice(sorted, remainingSlots)
     ELSE filtered

pruneMemoriesResult(mems, st) ==
  IF ~st.enabled \/ ~st.forgettingEnabled THEN mems
  ELSE IF Len(mems) - Len(pruneKeep(mems, st)) > 0 THEN pruneKeep(mems, st)
  ELSE mems

pruneMemories ==
  /\ memories' = pruneMemoriesResult(memories, settings)
  /\ last' = Done("pruneMemories", 0, <<Len(memories) - Len(memories')>>)
  /\ UNCHANGED storeFrame

\* memoryManager.ts decayMemories
decayOne(m, rate, t) ==
  IF t - m.updatedAt < Hour THEN m
  ELSE IF Abs(calculateCurrentImportance(m, rate, t) - m.importance) > DecayMinDelta * ImpScale
       THEN [m EXCEPT !.importance = calculateCurrentImportance(m, rate, t), !.updatedAt = t]
       ELSE m

decayMemoriesResult(mems, st, t) ==
  IF ~st.enabled \/ ~st.forgettingEnabled THEN mems
  ELSE [i \in 1..Len(mems) |-> decayOne(mems[i], st.decayRate, t)]

decayMemories ==
  /\ memories' = decayMemoriesResult(memories, settings, now)
  /\ last' = Done("decayMemories", 0, <<>>)
  /\ UNCHANGED storeFrame

\* useMemoryMaintenance.ts runMaintenance: decay, then prune
runMaintenance ==
  /\ memories' = IF ~settings.enabled \/ ~settings.forgettingEnabled THEN memories
                 ELSE pruneMemoriesResult(decayMemoriesResult(memories, settings, now), settings)
  /\ last' = Done("runMaintenance", 0, <<>>)
  /\ UNCHANGED storeFrame

\* variant: each access restores a flat 50 points with no upper cap
touchMemoryUncapped(id) ==
  /\ memories' = IF id \in Ids(memories)
                 THEN [memories EXCEPT ![IndexOf(memories, id)] =
                         [@ EXCEPT !.accessCount = @ + 1,
                                   !.lastAccessedAt = now,
                                   !.importance = @ + 50 * ImpScale]]
                 ELSE memories
  /\ last' = Done("touchMemory", id, <<>>)
  /\ UNCHANGED storeFrame

\* memoryManager.ts touchMemory
touchMemory(id) ==
  /\ memories' = IF id \in Ids(memories)
                 THEN [memories EXCEPT ![IndexOf(memories, id)] =
                         [@ EXCEPT !.accessCount = @ + 1,
                                   !.lastAccessedAt = now,
                                   !.importance = Min(MaxImportance * ImpScale,
                                                      @ + ((MaxImportance * ImpScale - @) \div 2))]]
                 ELSE memories
  /\ last' = Done("touchMemory", id, <<>>)
  /\ UNCHANGED storeFrame

\* storage getMemoriesWithImportance: the current importance of each memory
currentImportances(mems, rate, t) ==
  [i \in 1..Len(mems) |-> calculateImportance(mems[i], rate, t)]

\* storage previewCleanup: walks the unpinned memories in descending current
\* importance; keep holds willKeep so far, del holds toDelete so far
RECURSIVE previewWalk(_, _, _, _)
previewWalk(rest, keep, del, st) ==
  IF rest = <<>> THEN [toDelete |-> del, willKeep |-> keep]
  ELSE LET memory == Head(rest)
           belowThreshold == memory.key < Threshold(st)
           overLimit == Len(keep) >= st.maxMemoryCount
       IN IF belowThreshold \/ overLimit
          THEN previewWalk(Tail(rest), keep, Append(del, memory.item), st)
          ELSE previewWalk(Tail(rest), Append(keep, memory.item), del, st)

previewCleanup(mems, st, t) ==
  LET pinnedMemories == Pinned(mems)
      unpinnedMemories == Unpinned(mems)
      sorted == SortDesc(Keyed(unpinnedMemories,
                               currentImportances(unpinnedMemories, st.decayRate, t)))
  IN previewWalk(sorted, pinnedMemories, <<>>, st)

performSmartCleanupResult(mems, st, t) ==
  IF ~st.forgettingEnabled THEN mems
  ELSE IF Len(previewCleanup(mems, st, t).toDelete) = 0 THEN mems
  ELSE previewCleanup(mems, st, t).willKeep

performSmartCleanup ==
  /\ memories' = performSmartCleanupResult(memories, settings, now)
  /\ last' = Done("performSmartCleanup", 0, <<Len(memories) - Len(memories')>>)
  /\ UNCHANGED storeFrame

\* storage forceCleanup(count): drops the count unpinned memories of lowest
\* current importance (ascending stable sort = descending sort of -key)
forceCleanupResult(mems, count, st, t) ==
  LET pinnedMemories == Pinned(mems)
      unpinnedMemories == Unpinned(mems)
      cur == currentImportances(unpinnedMemories, st.decayRate, t)
      asc == Items(SortDesc(Keyed(unpinnedMemories, [i \in 1..Len(cur) |-> 0 - cur[i]])))
      n == Min(count, Len(asc))
  IN pinnedMemories \o SubSeq(asc, n + 1, Len(asc))

forceCleanup(count) ==
  /\ memories' = forceCleanupResult(memories, count, settings, now)
  /\ last' = Done("forceCleanup", count, <<>>)
  /\ UNCHANGED storeFrame

\* the clock
Tick(d) ==
  /\ now + d <= MaxTime
  /\ now' = now + d
  /\ last' = Done("tick", 0, <<>>)
  /\ UNCHANGED <<memories, settings, nextId, retr, pending>>

recordMemoriesAccess(ids) ==
  /\ \A i \in 1..Len(memories) : memories[i].id \in ids => memories[i].accessCount < MaxAccess
  /\ memories' = recordMemoriesAccessResult(memories, ids, now)
  /\ last' = Done("recordMemoriesAccess", 0, <<ids>>)
  /\ UNCHANGED storeFrame

\* ------------------------------------------------------------------------
\* Text: a string is a sequence of one-character strings
\* ------------------------------------------------------------------------
UpperLetters == <<"A", "B", "C", "D", "E", "F", "G", "H", "I", "J", "K", "L", "M",
                  "N", "O", "P", "Q", "R", "S", "T", "U", "V", "W", "X", "Y", "Z">>
LowerLetters == <<"a", "b", "c", "d", "e", "f", "g", "h", "i", "j", "k", "l", "m",
                  "n", "o", "p", "q", "r", "s", "t", "u", "v", "w", "x", "y", "z">>
Whitespace == {" ", "\n"}

LowerChar(c) ==
  IF \E i \in 1..Len(UpperLetters) : UpperLetters[i] = c
  THEN LowerLetters[CHOOSE i \in 1..Len(UpperLetters) : UpperLetters[i] = c]
  ELSE c

\* String.prototype.toLowerCase
toLowerCase(s) == [i \in 1..Len(s) |-> LowerChar(s[i])]

\* String.prototype.includes
includes(hay, needle) ==
  \E i \in 0..(Len(hay) - Len(needle)) : SubSeq(hay, i + 1, i + Len(needle)) = needle

\* String.prototype.split(/\s+/): words is the list so far, word the piece
\* being read, inGap whether the last character was whitespace
RECURSIVE splitWalk(_, _, _, _)
splitWalk(rest, words, word, inGap) ==
  IF rest = <<>> THEN Append(words, word)
  ELSE IF Head(rest) \in Whitespace
       THEN IF inGap THEN splitWalk(Tail(rest), words, word, TRUE)
            ELSE splitWalk(Tail(rest), Append(words, word), <<>>, TRUE)
       ELSE splitWalk(Tail(rest), words, Append(word, Head(rest)), FALSE)

split(s) == splitWalk(s, <<>>, <<>>, FALSE)

\* ------------------------------------------------------------------------
\* Embedding vectors and cosine similarity.  Similarities are carried as
\* percentages rounded down (SimScale = 100), which decides every comparison
\* with similarityThreshold / 100 exactly.
\* ------------------------------------------------------------------------
SimScale == 100

RECURSIVE Dot(_, _)
Dot(a, b) == IF a = <<>> THEN 0 ELSE Head(a) * Head(b) + Dot(Tail(a), Tail(b))

\* floor(SimScale * dot / sqrt(n2)) for n2 > 0
ScaledQuotient(dot, n2) ==
  IF dot >= 0
  THEN CHOOSE s \in 0..SimScale :
         /\ s * s * n2 <= SimScale * SimScale * dot * dot
         /\ (s + 1) * (s + 1) * n2 > SimScale * SimScale * dot * dot
  ELSE 0 - (CHOOSE s \in 0..SimScale :
              /\ s * s * n2 >= SimScale * SimScale * dot * dot
              /\ (s = 0 \/ (s - 1) * (s - 1) * n2 < SimScale * SimScale * dot * dot))

cosineSimilarity(a, b) ==
  IF Len(a) # Len(b) THEN 0
  ELSE IF Dot(a, a) = 0 \/ Dot(b, b) = 0 THEN 0
  ELSE ScaledQuotient(Dot(a, b), Dot(a, a) * Dot(b, b))

\* ------------------------------------------------------------------------
\* Retrieval engine (contextInjection.ts)
\* ------------------------------------------------------------------------
Retrieved(m, similarity) ==
  [id |-> m.id, content |-> m.content, similarity |-> similarity, source |-> m.source]

ResultIds(results) == {results[i].id : i \in 1..Len(results)}

queryWords(query) == SelectSeq(split(toLowerCase(query)), LAMBDA w : Len(w) > 1)

\* variant: the content is matched without lower-casing it
keywordScoreCaseSensitive(query, content) ==
  LET words == queryWords(query)
      hits == Len(SelectSeq(words, LAMBDA w : includes(content, w)))
  IN hits + (IF includes(content, toLowerCase(query)) THEN 2 ELSE 0)

\* the score simpleKeywordSearch gives one memory
keywordScore(query, content) ==
  LET contentLower == toLowerCase(content)
      words == queryWords(query)
      hits == Len(SelectSeq(words, LAMBDA w : includes(contentLower, w)))
  IN hits + (IF includes(contentLower, toLowerCase(query)) THEN 2 ELSE 0)

\* variant: the scored memories are cut without sorting them
simpleKeywordSearchUnsorted(query, mems, maxCount) ==
  IF Len(queryWords(query)) = 0 THEN <<>>
  ELSE LET scores == [i \in 1..Len(mems) |-> keywordScore(query, mems[i].content)]
           scored == SelectSeq(Keyed(mems, scores), LAMBDA r : r.key > 0)
           top == Slice(scored, maxCount)
       IN [i \in 1..Len(top) |->
             Retrieved(top[i].item, (top[i].key * SimScale) \div (Len(queryWords(query)) + 2))]

simpleKeywordSearch(query, mems, maxCount) ==
  IF Len(queryWords(query)) = 0 THEN <<>>
  ELSE LET scores == [i \in 1..Len(mems) |-> keywordScore(query, mems[i].content)]
           scored == SelectSeq(Keyed(mems, scores), LAMBDA r : r.key > 0)
           top == Slice(SortDesc(scored), maxCount)
       IN [i \in 1..Len(top) |->
             Retrieved(top[i].item, (top[i].key * SimScale) \div (Len(queryWords(query)) + 2))]

embedded(mems) == SelectSeq(mems, HasEmbedding)

\* variant: the semantic branch without the threshold filter
semanticSearchUnfiltered(queryEmbedding, mems, maxCount, threshold) ==
  LET withEmbedding == SelectSeq(mems, HasEmbedding)
      sims == [i \in 1..Len(withEmbedding) |->
                 cosineSimilarity(queryEmbedding, withEmbedding[i].embedding[1])]
      top == Slice(SortDesc(Keyed(withEmbedding, sims)), maxCount)
  IN [i \in 1..Len(top) |-> Retrieved(top[i].item, top[i].key)]

\* the semantic branch of retrieveRelevantMemories; threshold is
\* similarityThreshold / 100, carried as a percentage
semanticSearch(queryEmbedding, mems, maxCount, threshold) ==
  LET withEmbedding == embedded(mems)
      sims == [i \in 1..Len(withEmbedding) |->
                 cosineSimilarity(queryEmbedding, withEmbedding[i].embedding[1])]
      passing == SelectSeq(Keyed(withEmbedding, sims), LAMBDA r : r.key >= threshold)
      top == Slice(SortDesc(passing), maxCount)
  IN [i \in 1..Len(top) |-> Retrieved(top[i].item, top[i].key)]

\* variant: the fallback is cut at maxCount only
recencyFallbackUncapped(mems, maxCount) ==
  LET recent == Slice(SortDesc(Keyed(mems, [i \in 1..Len(mems) |-> mems[i].createdAt])), maxCount)
  IN [i \in 1..Len(recent) |-> Retrieved(recent[i].item, SimScale \div 2)]

\* the newest memories, returned when nothing matched
recencyFallback(mems, maxCount) ==
  LET recent == Slice(SortDesc(Keyed(mems, [i \in 1..Len(mems) |-> mems[i].createdAt])),
                      Min(maxCount, RecencyLimit))
  IN [i \in 1..Len(recent) |-> Retrieved(recent[i].item, SimScale \div 2)]

\* String.prototype.trim
RECURSIVE trimStart(_)
trimStart(s) == IF s # <<>> /\ Head(s) \in Whitespace THEN trimStart(Tail(s)) ELSE s

RECURSIVE trimEnd(_)
trimEnd(s) ==
  IF s # <<>> /\ s[Len(s)] \in Whitespace THEN trimEnd(SubSeq(s, 1, Len(s) - 1)) ELSE s

trim(s) == trimEnd(trimStart(s))

\* variant: whatever the provider gave is the search query
rewriteQueryUnchecked(userMessage, response) == trim(response.text)

\* rewriteQuery: what it returns for a provider response; a failed call
\* (response.ok = FALSE) returns the user message
rewriteQuery(userMessage, response) ==
  IF ~response.ok THEN userMessage
  ELSE IF trim(response.text) = <<>> \/ Len(trim(response.text)) > Len(userMessage) * 2
       THEN userMessage
       ELSE trim(response.text)

\* variant: the gate looks at the master switch only
retrievalGateEnabledOnly(st) == st.enabled

\* the hard gate of buildContextWithMemories
retrievalGate(st) == st.enabled /\ st.autoRetrieve

\* what chatCompletion gave rewriteQuery: ok = FALSE is a thrown error
NoResponse == [ok |-> FALSE, text |-> <<>>]

IdleRetrieval ==
  [pc |-> "idle", userMessage |-> <<>>, searchQuery |-> <<>>, snapshot |-> <<>>,
   queryEmbedding |-> <<>>, primary |-> <<>>, results |-> <<>>, path |-> "none",
   embedCalls |-> 0, genCalls |-> 0, response |-> NoResponse]

\* the end of retrieveRelevantMemories and of buildContextWithMemories: the
\* recency fallback, then the access record, then the return
finishRetrieval(r, primary, path) ==
  LET fallback == Len(primary) = 0 /\ Len(r.snapshot) > 0
      results == IF fallback THEN recencyFallback(r.snapshot, settings.maxRetrieveCount)
                 ELSE primary
  IN /\ memories' = IF Len(results) > 0
                    THEN recordMemoriesAccessResult(memories, ResultIds(results), now)
                    ELSE memories
     /\ retr' = [r EXCEPT !.pc = "done", !.primary = primary, !.results = results,
                          !.path = IF fallback THEN "recency" ELSE path]
     /\ last' = Done("buildContextWithMemories", 0, results)
     /\ UNCHANGED <<settings, now, nextId, pending>>

\* retrieveRelevantMemories up to its await: reads the store; without
\* embedded memories it searches by keyword at once, else it asks for the
\* query embedding and suspends
startRetrieval(r) ==
  LET r1 == [r EXCEPT !.snapshot = memories]
  IN IF Len(memories) = 0 THEN finishRetrieval(r1, <<>>, "empty")
     ELSE IF Len(embedded(memories)) = 0
          THEN finishRetrieval(r1, simpleKeywordSearch(r.searchQuery, memories,
                                                       settings.maxRetrieveCount), "keyword")
          ELSE /\ retr' = [r1 EXCEPT !.pc = "embedding", !.embedCalls = @ + 1]
               /\ UNCHANGED <<memories, settings, now, nextId, last, pending>>

beginBuildContext(userMessage) ==
  /\ retr.pc = "idle"
  /\ LET r == [IdleRetrieval EXCEPT !.userMessage = userMessage, !.searchQuery = userMessage]
     IN IF ~retrievalGate(settings)
        THEN /\ retr' = [r EXCEPT !.pc = "done", !.path = "gate"]
             /\ last' = Done("buildContextWithMemories", 0, <<>>)
             /\ UNCHANGED <<memories, settings, now, nextId, pending>>
        ELSE IF settings.queryRewriting /\ settings.toolModel # ""
             THEN /\ retr' = [r EXCEPT !.pc = "rewriting", !.genCalls = @ + 1]
                  /\ UNCHANGED <<memories, settings, now, nextId, last, pending>>
             ELSE startRetrieval(r)

\* the text-generation call of rewriteQuery returns
rewriteReturn(response) ==
  /\ retr.pc = "rewriting"
  /\ LET rewrittenQuery == rewriteQuery(retr.userMessage, response)
     IN startRetrieval([retr EXCEPT !.response = response,
                                    !.searchQuery =
                                      IF rewrittenQuery # <<>> /\ rewrittenQuery # retr.userMessage
                                      THEN rewrittenQuery ELSE retr.userMessage])

\* generateEmbedding(query) returns: <<>> is null, <<v>> the vector v
embeddingReturn(queryEmbedding) ==
  /\ retr.pc = "embedding"
  /\ LET r == [retr EXCEPT !.queryEmbedding = queryEmbedding]
     IN IF queryEmbedding = <<>>
        THEN finishRetrieval(r, simpleKeywordSearch(retr.searchQuery, retr.snapshot,
                                                    settings.maxRetrieveCount), "keyword")
        ELSE finishRetrieval(r, semanticSearch(queryEmbedding[1], retr.snapshot,
                                               settings.maxRetrieveCount,
                                               settings.similarityThreshold), "semantic")

\* ------------------------------------------------------------------------
\* The end of a conversation turn (onComplete, outside incognito mode)
\* ------------------------------------------------------------------------
\* extractAndSaveMemories reaches its chatCompletion call
extractionGate(st) == st.enabled /\ st.autoSummarize /\ st.toolModel # ""

\* the post-conversation clean-up runs
cleanupAfterChat(st) ==
  st.enabled /\ st.forgettingEnabled /\ st.cleanupFrequency = "after_chat"

\* onComplete: starts the extraction call, then cleans up
onComplete ==
  /\ ~pending.extraction
  /\ pending' = IF extractionGate(settings) THEN [pending EXCEPT !.extraction = TRUE]
                ELSE pending
  /\ memories' = IF cleanupAfterChat(settings)
                 THEN performSmartCleanupResult(memories, settings, now)
                 ELSE memories
  /\ last' = Done("onComplete", 0, <<>>)
  /\ UNCHANGED <<settings, now, nextId, retr>>

\* ------------------------------------------------------------------------
\* Inputs
\* ------------------------------------------------------------------------
defaultMemorySettings ==
  [enabled |-> FALSE, autoRetrieve |-> TRUE, queryRewriting |-> TRUE,
   maxRetrieveCount |-> 5, similarityThreshold |-> 10, autoSummarize |-> TRUE,
   toolModel |-> "",
   forgettingEnabled |-> TRUE, maxMemoryCount |-> 100, importanceThreshold |-> 20,
   decayRate |-> "normal", cleanupFrequency |-> "after_chat"]

NoOp == [op |-> "init", before |-> <<>>, id |-> 0, ret |-> <<>>]

\* nothing in flight
\* no backfill loop (generateEmbeddingsForMemories, ensureMemoryEmbeddings) runs
NoBackfill ==
  [kind |-> "none", pc |-> "idle", lacking |-> <<>>, todo |-> <<>>, outstanding |-> {},
   issued |-> <<>>, failed |-> {}]

NoPending == [extraction |-> FALSE, embeddings |-> {}, saves |-> {}, backfill |-> NoBackfill]

\* Sequences of length 0..n over the set S
RECURSIVE SeqsUpTo(_, _)
SeqsUpTo(S, n) ==
  IF n = 0 THEN {<<>>}
  ELSE SeqsUpTo(S, n - 1) \cup {Append(s, x) : s \in {t \in SeqsUpTo(S, n - 1) : Len(t) = n - 1}, x \in S}

\* the i-th memory of a store gets id i
WithIds(s) == [i \in 1..Len(s) |-> [s[i] EXCEPT !.id = i]]

\* ------------------------------------------------------------------------
\* Retention: sweeps over stores that a week of use leaves behind.
\* The store was created at time 0 and is swept at SweepTime (or later);
\* each memory is in one of the states below, all produced by addMemory,
\* toggleMemoryPinned, recordMemoriesAccess and decayMemories.
\* ------------------------------------------------------------------------
SweepTime == 7 * Day

Old(source) == NewMemory(0, <<"a">>, source, 0)
Fresh(source) == NewMemory(0, <<"a">>, source, SweepTime)

RetentionMemories(rate) ==
  { Fresh("auto"), Old("auto"), Old("manual"),
    \* decayed by a sweep at SweepTime, then pinned
    [decayOne(Old("auto"), rate, SweepTime) EXCEPT !.pinned = TRUE],
    \* retrieved once at SweepTime
    [Old("auto") EXCEPT !.accessCount = 1, !.lastAccessedAt = SweepTime, !.updatedAt = SweepTime],
    \* pinned and unpinned again within the last hour
    [Old("manual") EXCEPT !.updatedAt = SweepTime] }

RetentionSettings ==
  {[defaultMemorySettings EXCEPT !.enabled = TRUE, !.forgettingEnabled = TRUE,
                                 !.maxMemoryCount = c, !.importanceThreshold = th,
                                 !.decayRate = r] :
     c \in {1, 2, MaxMem}, th \in {20, 35}, r \in DecayRates}
  \cup
  \* the memory feature or forgetting switched off
  {[defaultMemorySettings EXCEPT !.enabled = e, !.forgettingEnabled = f,
                                 !.maxMemoryCount = 1, !.importanceThreshold = 35,
                                 !.decayRate = "fast"] :
     e \in BOOLEAN, f \in BOOLEAN}
  \cup
  \* clean-up left to the user, or to the daily run
  {[defaultMemorySettings EXCEPT !.enabled = TRUE, !.forgettingEnabled = TRUE,
                                 !.maxMemoryCount = 1, !.importanceThreshold = 35,
                                 !.decayRate = "fast", !.cleanupFrequency = cf] :
     cf \in {"daily", "manual"}}

InitRetention ==
  /\ settings \in RetentionSettings
  /\ memories \in {WithIds(s) : s \in SeqsUpTo(RetentionMemories(settings.decayRate), MaxMem)}
  /\ now = SweepTime
  /\ nextId = MaxMem + 1
  /\ last = NoOp
  /\ retr = IdleRetrieval
  /\ pending = NoPending

NextRetention ==
  \/ pruneMemories
  \/ decayMemories
  \/ runMaintenance
  \/ performSmartCleanup
  \/ \E c \in 1..2 : forceCleanup(c)
  \/ onComplete

SpecRetention == InitRetention /\ [][NextRetention]_vars

\* ------------------------------------------------------------------------
\* Store: the life of a small store under the CRUD operations
\* ------------------------------------------------------------------------
Str_DarkMode == <<"D", "a", "r", "k", " ", "m", "o", "d", "e">>
Str_tea == <<"t", "e", "a">>
Str_modeOn == <<"m", "o", "d", "e", " ", "o", "n">>
Str_TeaMode == <<"T", "e", "a", " ", "m", "o", "d", "e">>

StoreContents == {Str_DarkMode, Str_tea}
StoreVectors == {<<1, 0>>, <<0, 1>>}
Instants == {Hour, MaxTime}

InitStore ==
  /\ memories = <<>>
  /\ settings = [defaultMemorySettings EXCEPT !.enabled = TRUE]
  /\ now = 0
  /\ nextId = 1
  /\ last = NoOp
  /\ retr = IdleRetrieval
  /\ pending = NoPending

NextStore ==
  \/ \E c \in StoreContents : addMemory(c, "manual")
  \/ \E id \in 1..MaxIds, c \in StoreContents : updateMemory(id, c)
  \/ \E id \in Ids(memories) : deleteMemory(id)
  \/ \E id \in Ids(memories), v \in StoreVectors : updateMemoryEmbedding(id, v)
  \/ \E t \in Instants : t > now /\ Tick(t - now)

SpecStore == InitStore /\ [][NextStore]_vars

\* ------------------------------------------------------------------------
\* Retrieval: one buildContextWithMemories call over a store of memories
\* added at different times, some with embeddings; memories may be deleted
\* while the call waits for the query embedding
\* ------------------------------------------------------------------------
MaxStored == 4
RetrieveTime == 10

Str_dark == <<"d", "a", "r", "k">>
Str_TeaMODE == <<"T", "e", "a", " ", "M", "O", "D", "E">>
Str_a_b == <<"a", " ", "b">>
Str_zz == <<"z", "z">>

RetrievalMemory(i) ==
  LET k == (i - 1) % 4
  IN CASE k = 0 -> [NewMemory(i, Str_DarkMode, "manual", 3) EXCEPT !.embedding = SomeEmbedding(<<1, 0>>)]
       [] k = 1 -> NewMemory(i, Str_tea, "auto", 4)
       [] k = 2 -> [NewMemory(i, Str_modeOn, "manual", 2) EXCEPT !.embedding = SomeEmbedding(<<-1, 1>>)]
       [] k = 3 -> NewMemory(i, Str_TeaMode, "auto", 2)

\* the elements of s at the positions in S, in order
Restrict(s, S) ==
  LET F[i \in 0..Len(s)] ==
        IF i = 0 THEN <<>> ELSE IF i \in S THEN Append(F[i - 1], s[i]) ELSE F[i - 1]
  IN F[Len(s)]

RetrievalStores ==
  {Restrict([i \in 1..MaxStored |-> RetrievalMemory(i)], S) : S \in SUBSET (1..MaxStored)}

\* the tool model in effect (memorySettings.toolModel || generalSettings.toolModel):
\* none configured, or a provider:model pair
ToolModels == {"", "deepseek:deepseek-chat"}

RetrievalSettings ==
  {[defaultMemorySettings EXCEPT !.enabled = e, !.autoRetrieve = a, !.queryRewriting = w,
                                 !.toolModel = tm,
                                 !.maxRetrieveCount = c, !.similarityThreshold = t] :
     e \in BOOLEAN, a \in BOOLEAN, w \in BOOLEAN, tm \in ToolModels,
     c \in {1, 2, MaxStored}, t \in {0, 50}}

Queries == {Str_dark, Str_TeaMODE, Str_a_b, Str_zz}
RewriteResponses ==
  {[ok |-> FALSE, text |-> <<>>]} \cup
  {[ok |-> TRUE, text |-> x] : x \in {<<>>, Str_dark, <<" ">> \o Str_TeaMODE \o <<" ">>}}
QueryEmbeddings == {<<>>, <<<<1, 0>>>>, <<<<0, 1>>>>}

InitRetrieval ==
  /\ settings \in RetrievalSettings
  /\ memories \in RetrievalStores
  /\ now = RetrieveTime
  /\ nextId = MaxStored + 1
  /\ last = NoOp
  /\ retr = IdleRetrieval
  /\ pending = NoPending

NextRetrieval ==
  \/ \E q \in Queries : beginBuildContext(q)
  \/ \E response \in RewriteResponses : rewriteReturn(response)
  \/ \E e \in QueryEmbeddings : embeddingReturn(e)
  \/ \E id \in Ids(memories) : retr.pc = "embedding" /\ deleteMemory(id)

SpecRetrieval == InitRetrieval /\ [][NextRetrieval]_vars

\* ------------------------------------------------------------------------
\* Properties of the sweeps
\* ------------------------------------------------------------------------
Before == last.before
Forgetting == settings.enabled /\ settings.forgettingEnabled
Deleted(m) == m.id \notin Ids(memories)
Count(s, P(_)) == Len(SelectSeq(s, P))

\* C1: every prune operation (pruneMemories, performSmartCleanup,
\* forceCleanup, and the maintenance run) leaves every pinned memory in the
\* store, whatever its stored importance and however far the store exceeds
\* maxMemoryCount.
C1_PinnedSurvive ==
  last.op \in {"pruneMemories", "performSmartCleanup", "forceCleanup", "runMaintenance"} =>
    \A i \in 1..Len(Before) :
      Before[i].pinned => ~Deleted(Before[i]) /\ Lookup(memories, Before[i].id).pinned

C1_Witness ==
  /\ last.op \in {"pruneMemories", "performSmartCleanup", "forceCleanup"}
  /\ Len(Before) > settings.maxMemoryCount
  /\ Len(memories) < Len(Before)
  /\ \E i \in 1..Len(Before) :
       Before[i].pinned /\ Before[i].importance < Threshold(settings) /\ ~Deleted(Before[i])

\* The importance a sweep ranks a memory by: pruneMemories reads the stored
\* importance, performSmartCleanup the value of calculateImportance.
SweepScore(m) ==
  IF last.op = "pruneMemories" THEN m.importance
  ELSE calculateImportance(m, settings.decayRate, now)

Passing == SelectSeq(Unpinned(Before), LAMBDA m : SweepScore(m) >= Threshold(settings))
CapForces == Len(Pinned(Before)) + Len(Passing) > settings.maxMemoryCount

Current(m) == calculateCurrentImportance(m, settings.decayRate, now)
PassingCurrent == SelectSeq(Unpinned(Before), LAMBDA m : Current(m) >= Threshold(settings))

\* C3: a prune sweep deletes an unpinned memory by the threshold rule if and
\* only if its current importance (stored importance decayed since
\* lastAccessedAt, at the moment of the sweep) is below importanceThreshold:
\* every unpinned memory below the threshold is gone, and one at or above it
\* goes only when the cap forces it.
C3_CurrentImportanceDecides ==
  (last.op \in {"pruneMemories", "performSmartCleanup"} /\ Forgetting) =>
    \A i \in 1..Len(Before) :
      ~Before[i].pinned =>
        /\ Current(Before[i]) < Threshold(settings) => Deleted(Before[i])
        /\ (Current(Before[i]) >= Threshold(settings) /\ Deleted(Before[i])) =>
             Len(Pinned(Before)) + Len(PassingCurrent) > settings.maxMemoryCount

\* ------------------------------------------------------------------------
\* Properties of the store operations
\* ------------------------------------------------------------------------
\* C4: after updateMemory(id, newContent) on a memory that has an embedding,
\* the memory's embedding is absent, its content is newContent and its
\* updatedAt is the time of the update.
C4_UpdateInvalidatesEmbedding ==
  (last.op = "updateMemory" /\ last.id \in Ids(Before)
     /\ HasEmbedding(Lookup(Before, last.id))) =>
    /\ last.id \in Ids(memories)
    /\ Lookup(memories, last.id).embedding = NoEmbedding
    /\ Lookup(memories, last.id).content = last.ret[1]
    /\ Lookup(memories, last.id).updatedAt = now

\* ------------------------------------------------------------------------
\* Properties of retrieval
\* ------------------------------------------------------------------------
Returned == retr.pc = "done" /\ last.op = "buildContextWithMemories"
Snapshot == retr.snapshot
Results == retr.results
Searched == Returned /\ retr.path # "gate"
ContainsWord(content, query) ==
  \E j \in 1..Len(split(toLowerCase(query))) :
    /\ Len(split(toLowerCase(query))[j]) > 1
    /\ includes(toLowerCase(content), split(toLowerCase(query))[j])
PositionIn(mems, id) == CHOOSE i \in 1..Len(mems) : mems[i].id = id

\* C5: with settings.enabled or settings.autoRetrieve off,
\* buildContextWithMemories returns no memories, leaves the store as it was
\* and issues neither an embedding nor a text-generation call.
C5_GateClosed ==
  ~(settings.enabled /\ settings.autoRetrieve) =>
    /\ retr.pc \in {"idle", "done"}
    /\ retr.embedCalls = 0 /\ retr.genCalls = 0
    /\ Returned => Results = <<>> /\ memories = Before

C5_Witness ==
  /\ Returned
  /\ settings.enabled /\ ~settings.autoRetrieve /\ settings.queryRewriting
  /\ \E i \in 1..Len(memories) : ContainsWord(memories[i].content, retr.userMessage)
  /\ \E i \in 1..Len(memories) : HasEmbedding(memories[i])

\* C6: when no stored memory has an embedding, or the query embedding is
\* null, and some memory's content contains a query word of more than one
\* character (case-insensitively), the result is non-empty, comes from the
\* keyword search and holds only memories that contain a query word.
C6_KeywordFallback ==
  (/\ Searched
   /\ Len(SelectSeq(Snapshot, HasEmbedding)) = 0 \/ retr.queryEmbedding = <<>>
   /\ \E i \in 1..Len(Snapshot) : ContainsWord(Snapshot[i].content, retr.searchQuery)) =>
    /\ Results # <<>>
    /\ retr.path = "keyword"
    /\ \A i \in 1..Len(Results) :
         /\ Results[i].id \in Ids(Snapshot)
         /\ ContainsWord(Lookup(Snapshot, Results[i].id).content, retr.searchQuery)

C6_Witness ==
  /\ Searched
  /\ retr.embedCalls = 1 /\ retr.queryEmbedding = <<>>
  /\ Results # <<>> /\ retr.path = "keyword"
  /\ \E i \in 1..Len(Snapshot) : ~ContainsWord(Snapshot[i].content, retr.searchQuery)
  /\ \E i \in 1..Len(Results) :
       Lookup(Snapshot, Results[i].id).content # toLowerCase(Lookup(Snapshot, Results[i].id).content)

\* C7: when the store is non-empty and neither the semantic nor the keyword
\* search yields a result, retrieval returns between 1 and 3 memories, the
\* most recently created ones in descending createdAt order, each with
\* similarity 0.5; on an empty store it returns nothing.
C7_RecencyFallback ==
  Searched =>
    /\ Snapshot = <<>> => Results = <<>>
    /\ (Snapshot # <<>> /\ retr.primary = <<>>) =>
         /\ Len(Results) >= 1 /\ Len(Results) <= 3
         /\ \A i \in 1..Len(Results) :
              /\ Results[i].id \in Ids(Snapshot)
              /\ 2 * Results[i].similarity = SimScale
         /\ \A i, j \in 1..Len(Results) :
              i < j => /\ Results[i].id # Results[j].id
                       /\ Lookup(Snapshot, Results[i].id).createdAt >=
                            Lookup(Snapshot, Results[j].id).createdAt
         /\ \A i \in 1..Len(Results), k \in 1..Len(Snapshot) :
              Snapshot[k].id \notin ResultIds(Results) =>
                /\ Lookup(Snapshot, Results[i].id).createdAt >= Snapshot[k].createdAt
                /\ Len(Results) = Min(3, settings.maxRetrieveCount)

C7_Witness ==
  /\ Searched
  /\ retr.primary = <<>>
  /\ Len(Snapshot) > 3 /\ settings.maxRetrieveCount > 3
  /\ Len(Results) = 3
  /\ PositionIn(Snapshot, Results[1].id) > 1

\* C8: on the semantic path every returned memory has cosine similarity at
\* least similarityThreshold / 100, and on every path at most
\* maxRetrieveCount memories are returned.
C8_ThresholdAndLimit ==
  Returned =>
    /\ Len(Results) <= settings.maxRetrieveCount
    /\ retr.path = "semantic" =>
         \A i \in 1..Len(Results) :
           /\ Results[i].id \in Ids(Snapshot)
           /\ HasEmbedding(Lookup(Snapshot, Results[i].id))
           /\ Results[i].similarity =
                cosineSimilarity(retr.queryEmbedding[1],
                                 Lookup(Snapshot, Results[i].id).embedding[1])
           /\ Results[i].similarity >= settings.similarityThreshold

C8_Witness ==
  /\ Returned
  /\ retr.path = "semantic"
  /\ Len(Results) = settings.maxRetrieveCount
  /\ \E i \in 1..Len(Snapshot) :
       /\ HasEmbedding(Snapshot[i])
       /\ cosineSimilarity(retr.queryEmbedding[1], Snapshot[i].embedding[1])
            < settings.similarityThreshold

\* C9: results are in descending order of similarity on the semantic path
\* and of keyword score on the keyword path; recency-fallback results are in
\* descending order of createdAt.
C9_Ordering ==
  Returned =>
    \A i, j \in 1..Len(Results) :
      i < j =>
        /\ retr.path \in {"semantic", "keyword"} =>
             Results[i].similarity >= Results[j].similarity
        /\ retr.path = "keyword" =>
             keywordScore(retr.searchQuery, Results[i].content) >=
               keywordScore(retr.searchQuery, Results[j].content)
        /\ retr.path = "recency" =>
             Lookup(Snapshot, Results[i].id).createdAt >=
               Lookup(Snapshot, Results[j].id).createdAt

C9_Witness ==
  /\ Returned
  /\ retr.path = "keyword"
  /\ Len(Results) >= 2
  /\ Results[1].similarity > Results[2].similarity
  /\ PositionIn(Snapshot, Results[1].id) > PositionIn(Snapshot, Results[2].id)

\* C10: when retrieval returns, every stored memory among the results has
\* its accessCount raised by exactly 1 and its lastAccessedAt set to the
\* current time; every other stored memory keeps both; returned ids that are
\* no longer in the store are ignored.
C10_AccessRecorded ==
  Searched =>
    /\ Ids(memories) = Ids(Before)
    /\ \A i \in 1..Len(Before) :
         LET old == Before[i]
             new == Lookup(memories, old.id)
         IN IF old.id \in ResultIds(Results)
            THEN new.accessCount = old.accessCount + 1 /\ new.lastAccessedAt = now
            ELSE new.accessCount = old.accessCount /\ new.lastAccessedAt = old.lastAccessedAt

C10_Witness ==
  /\ Searched
  /\ \E id \in ResultIds(Results) : id \notin Ids(memories)
  /\ \E id \in ResultIds(Results) :
       id \in Ids(memories) /\ Lookup(memories, id).accessCount = 1
  /\ \E id \in Ids(memories) : id \notin ResultIds(Results)

\* ------------------------------------------------------------------------
\* Properties of the importance model
\* ------------------------------------------------------------------------
\* the reinforcement rule: old + (100 - old) * 0.5
Reinforced(importance) == importance + (MaxImportance * ImpScale - importance) \div 2

\* C11: when retrieval returns, every unpinned stored memory among the
\* results has its stored importance moved to old + (100 - old) * 0.5, which
\* is above the old value while that is below 100 and never above 100.
C11_AccessReinforces ==
  Searched =>
    \A i \in 1..Len(Before) :
      (Before[i].id \in ResultIds(Results) /\ Before[i].id \in Ids(memories)
         /\ ~Before[i].pinned) =>
        /\ Lookup(memories, Before[i].id).importance = Reinforced(Before[i].importance)
        /\ Lookup(memories, Before[i].id).importance > Before[i].importance
        /\ Lookup(memories, Before[i].id).importance <= MaxImportance * ImpScale

\* ------------------------------------------------------------------------
\* Importance: both importance functions read on an untouched store as time
\* passes.  The store holds memories created at time 0 whose stored
\* importance is an initial value, a value left by a decay sweep, or a value
\* left by reinforcement.
\* ------------------------------------------------------------------------
ObserveWindow == 168

StoredImportances == {0, 10, AutoImportance, ManualImportance, MaxImportance}

ImportanceMemories ==
  {[NewMemory(0, <<"a">>, source, 0) EXCEPT !.importance = importance * ImpScale,
                                             !.accessCount = accessCount,
                                             !.pinned = pinned] :
     source \in Sources, importance \in StoredImportances,
     accessCount \in 0..MaxAccess, pinned \in BOOLEAN}

\* the values the two importance functions give every stored memory at t
Reading(mems, rate, t) ==
  [t |-> t,
   current |-> [i \in 1..Len(mems) |-> calculateCurrentImportance(mems[i], rate, t)],
   importance |-> currentImportances(mems, rate, t)]

\* time passes without any access; the importance of every memory is read
\* before and after
observeImportance(d) ==
  /\ now + d <= ObserveWindow
  /\ now' = now + d
  /\ last' = Done("observeImportance", 0,
                  <<Reading(memories, settings.decayRate, now),
                    Reading(memories, settings.decayRate, now + d)>>)
  /\ UNCHANGED <<memories, settings, nextId, retr, pending>>

InitImportance ==
  /\ settings \in {[defaultMemorySettings EXCEPT !.enabled = TRUE, !.decayRate = r] :
                     r \in DecayRates}
  /\ memories \in {WithIds(<<m>>) : m \in ImportanceMemories}
  /\ now = 0
  /\ nextId = 2
  /\ last = NoOp
  /\ retr = IdleRetrieval
  /\ pending = NoPending

NextImportance ==
  \E d \in {Hour, Day, 3 * Day} : observeImportance(d)

SpecImportance == InitImportance /\ [][NextImportance]_vars

Observed == last.op = "observeImportance"
Earlier == last.ret[1]
Later == last.ret[2]

\* C12: for an unpinned memory and each decay rate, with no access between
\* an earlier and a later time, the importance computed at the later time is
\* at most the importance computed at the earlier time, for both
\* calculateCurrentImportance and calculateImportance.
C12_DecayMonotone ==
  Observed =>
    \A i \in 1..Len(memories) :
      ~memories[i].pinned =>
        /\ Later.current[i] <= Earlier.current[i]
        /\ Later.importance[i] <= Earlier.importance[i]

C12_Witness ==
  /\ Observed
  /\ Earlier.t > 0
  /\ \E i \in 1..Len(memories) :
       /\ ~memories[i].pinned
       /\ memories[i].accessCount > 0
       /\ Later.current[i] < Earlier.current[i]
       /\ Later.importance[i] < Earlier.importance[i]

\* C13: for a pinned memory both importance functions give exactly 100,
\* whatever its stored importance, age, access count, source and the decay
\* rate.
C13_PinnedIsHundred ==
  Observed =>
    \A i \in 1..Len(memories) :
      memories[i].pinned =>
        /\ Earlier.current[i] = 100 * ImpScale /\ Later.current[i] = 100 * ImpScale
        /\ Earlier.importance[i] = 100 * ImpScale /\ Later.importance[i] = 100 * ImpScale

C13_Witness ==
  /\ Observed
  /\ Later.t >= 7 * Day
  /\ \E i \in 1..Len(memories) :
       /\ memories[i].pinned
       /\ memories[i].importance < AutoImportance * ImpScale
       /\ memories[i].source = "auto"
       /\ Later.current[i] = 100 * ImpScale /\ Later.importance[i] = 100 * ImpScale

\* ------------------------------------------------------------------------
\* Properties of retrieval under provider failures
\* ------------------------------------------------------------------------
\* rewriteQuery got nothing usable: the call threw, or the text is empty or
\* more than twice as long as the user message
RewriteUnusable ==
  \/ ~retr.response.ok
  \/ trim(retr.response.text) = <<>>
  \/ Len(trim(retr.response.text)) > 2 * Len(retr.userMessage)

PastRewriting == retr.pc \in {"embedding", "done"} /\ retr.path # "gate"

\* C14: provider failures never stop buildContextWithMemories.  Without a
\* tool model no text-generation call is made and the original query is
\* searched; when the rewriting call throws or gives an empty or over-long
\* text the original query is searched; when the query embedding is null the
\* primary results are those of the keyword search over the same snapshot,
\* and the call returns (with results whenever the store is non-empty).
C14_ProviderFailuresAbsorbed ==
  /\ (PastRewriting /\ settings.toolModel = "") =>
       retr.genCalls = 0 /\ retr.searchQuery = retr.userMessage
  /\ (PastRewriting /\ retr.genCalls = 1 /\ RewriteUnusable) =>
       retr.searchQuery = retr.userMessage
  /\ (Searched /\ retr.embedCalls = 1 /\ retr.queryEmbedding = <<>>) =>
       /\ retr.primary = simpleKeywordSearch(retr.searchQuery, Snapshot,
                                             settings.maxRetrieveCount)
       /\ retr.path \in {"keyword", "recency"}
       /\ Results # <<>>

C14_Witness ==
  /\ Searched
  /\ retr.genCalls = 1 /\ ~retr.response.ok
  /\ retr.embedCalls = 1 /\ retr.queryEmbedding = <<>>
  /\ retr.searchQuery = retr.userMessage
  /\ retr.path = "keyword" /\ Results # <<>>

\* ------------------------------------------------------------------------
\* Properties of the sweeps under the settings switches
\* ------------------------------------------------------------------------
\* C15: with settings.enabled or settings.forgettingEnabled off, the decay
\* sweep and every prune sweep (decayMemories, pruneMemories,
\* performSmartCleanup) leave the store exactly as it was.
C15_SweepsGated ==
  (last.op \in {"decayMemories", "pruneMemories", "performSmartCleanup"} /\ ~Forgetting) =>
    memories = Before

\* what previewCleanup shows for the store the sweep started from
Preview == previewCleanup(Before, settings, now)

\* C16: previewCleanup's toDelete is exactly what a prune sweep run on the
\* same store deletes and its willKeep exactly what the sweep keeps, the two
\* partitioning the store; for pruneMemories and for performSmartCleanup.
C16_PreviewMatchesPrune ==
  (last.op \in {"pruneMemories", "performSmartCleanup"} /\ Forgetting) =>
    /\ Ids(Preview.toDelete) = Ids(Before) \ Ids(memories)
    /\ Ids(Preview.willKeep) = Ids(memories)
    /\ Ids(Preview.toDelete) \cap Ids(Preview.willKeep) = {}
    /\ Ids(Preview.toDelete) \cup Ids(Preview.willKeep) = Ids(Before)

\* C19: with cleanupFrequency 'manual' background maintenance (the run at
\* app start and on the 24-hour timer, and the post-conversation hook)
\* deletes no memory.
C19_ManualMeansManual ==
  (last.op \in {"runMaintenance", "onComplete"} /\ settings.cleanupFrequency = "manual") =>
    Ids(memories) = Ids(Before)

\* ------------------------------------------------------------------------
\* Memory extraction (contextInjection.ts extractAndSaveMemories) and the
\* attachment of embeddings to the extracted memories
\* ------------------------------------------------------------------------
Sentinel == <<"无">>
MinLength == 5
MarkerChars == {"0", "1", "2", "3", "4", "5", "6", "7", "8", "9", "-", ".", ")"}

\* String.prototype.split('\n'): lines is the list so far, line the piece
\* being read
RECURSIVE splitLinesWalk(_, _, _)
splitLinesWalk(rest, lines, line) ==
  IF rest = <<>> THEN Append(lines, line)
  ELSE IF Head(rest) = "\n" THEN splitLinesWalk(Tail(rest), Append(lines, line), <<>>)
       ELSE splitLinesWalk(Tail(rest), lines, Append(line, Head(rest)))

splitLines(s) == splitLinesWalk(s, <<>>, <<>>)

RECURSIVE dropWhile(_, _)
dropWhile(s, chars) ==
  IF s # <<>> /\ Head(s) \in chars THEN dropWhile(Tail(s), chars) ELSE s

\* line.replace(/^[\d\-\.\)]+\s*/, '')
stripMarker(line) ==
  IF line # <<>> /\ Head(line) \in MarkerChars
  THEN dropWhile(dropWhile(line, MarkerChars), Whitespace)
  ELSE line

\* the contents extractAndSaveMemories stores for a generated text
extractContents(text) ==
  LET extractedInfo == trim(text)
  IN IF extractedInfo = <<>> \/ extractedInfo = Sentinel \/ Len(extractedInfo) < MinLength
     THEN <<>>
     ELSE LET lines == SelectSeq(splitLines(extractedInfo),
                                 LAMBDA line : Len(trim(line)) > MinLength /\ trim(line) # Sentinel)
              contents == [i \in 1..Len(lines) |-> trim(stripMarker(lines[i]))]
          IN SelectSeq(contents, LAMBDA content : Len(content) > MinLength)

Reverse(s) == [i \in 1..Len(s) |-> s[Len(s) + 1 - i]]

\* a generateEmbedding(content) call made for memory m
Request(m) == [id |-> m.id, content |-> m.content]

\* the chatCompletion call of extractAndSaveMemories returns: one addMemory
\* per stored line, each starting a generateEmbedding call
extractAndSaveMemories(response) ==
  /\ pending.extraction
  /\ LET contents == IF response.ok THEN extractContents(response.text) ELSE <<>>
         added == [i \in 1..Len(contents) |->
                     NewMemory(nextId + i - 1, contents[i], "auto", now)]
     IN /\ Len(memories) + Len(contents) <= MaxMem
        /\ nextId + Len(contents) - 1 <= MaxIds
        /\ memories' = Reverse(added) \o memories
        /\ nextId' = nextId + Len(contents)
        /\ pending' = [pending EXCEPT !.extraction = FALSE,
                                      !.embeddings = @ \cup
                                        {Request(added[i]) : i \in 1..Len(added)}]
        /\ last' = Done("extractAndSaveMemories", 0, <<response>>)
  /\ UNCHANGED <<settings, now, retr>>

\* contextInjection's updateMemoryEmbedding(id, embedding) up to its
\* import(): it reads the store, sets embedding and updatedAt on its copy and
\* defers the write; saves is the set of writes waiting
deferMemoryEmbedding(saves, mems, id, embedding, t) ==
  IF id \in Ids(mems)
  THEN saves \cup {[id |-> id,
                    memories |-> [mems EXCEPT ![IndexOf(mems, id)] =
                                    [@ EXCEPT !.embedding = embedding, !.updatedAt = t]]]}
  ELSE saves

\* generateEmbedding(content).then(...): the call made for a new memory
\* resolves with null (<<>>) or a vector
generateEmbeddingThen(request, embedding) ==
  /\ request \in pending.embeddings
  /\ pending' = [pending EXCEPT
                   !.embeddings = @ \ {request},
                   !.saves = IF embedding # <<>>
                             THEN deferMemoryEmbedding(@, memories, request.id, embedding, now)
                             ELSE @]
  /\ last' = Done("generateEmbeddingThen", request.id, embedding)
  /\ UNCHANGED <<memories, settings, now, nextId, retr>>

\* import('./storage').then(...): the deferred saveMemories(memories) runs
importStorageThen(save) ==
  /\ save \in pending.saves
  /\ memories' = save.memories
  /\ pending' = [pending EXCEPT !.saves = @ \ {save}]
  /\ last' = Done("importStorageThen", save.id, <<>>)
  /\ UNCHANGED <<settings, now, nextId, retr>>

\* ------------------------------------------------------------------------
\* Extraction: conversations end, the provider answers, embeddings arrive,
\* and the user adds and deletes memories meanwhile
\* ------------------------------------------------------------------------
Str_none == Sentinel
Str_abcde == <<"a", "b", "c", "d", "e">>
Str_likesTea == <<"l", "i", "k", "e", "s", " ", "t", "e", "a">>
\* "1. likes tea\n- abcde\n\nabc"
Str_list == <<"1", ".", " ">> \o Str_likesTea \o <<"\n", "-", " ">> \o Str_abcde
              \o <<"\n", "\n", "a", "b", "c">>
\* " likes tea \n2) Dark mode\n"
Str_two == <<" ">> \o Str_likesTea \o <<" ", "\n", "2", ")", " ">> \o Str_DarkMode \o <<"\n">>

ExtractResponses ==
  {[ok |-> FALSE, text |-> <<>>]} \cup
  {[ok |-> TRUE, text |-> x] : x \in {Str_none, Str_abcde, Str_list, Str_two}}

\* what generateEmbedding(content) resolves with: null or a vector
ContentEmbeddings == {<<>>, SomeEmbedding(<<1, 0>>)}

ExtractSettings ==
  {[defaultMemorySettings EXCEPT !.enabled = TRUE, !.autoSummarize = a,
                                 !.toolModel = "deepseek:deepseek-chat"] : a \in BOOLEAN}

InitExtract ==
  /\ settings \in ExtractSettings
  /\ memories = <<>>
  /\ now = 0
  /\ nextId = 1
  /\ last = NoOp
  /\ retr = IdleRetrieval
  /\ pending = NoPending

NextExtract ==
  \/ onComplete
  \/ \E response \in ExtractResponses : extractAndSaveMemories(response)
  \/ \E request \in pending.embeddings, e \in ContentEmbeddings :
       generateEmbeddingThen(request, e)
  \/ \E save \in pending.saves : importStorageThen(save)
  \/ addMemory(Str_tea, "manual")
  \/ \E id \in Ids(memories) : deleteMemory(id)
  \/ now = 0 /\ Tick(Hour)

SpecExtract == InitExtract /\ [][NextExtract]_vars

\* ------------------------------------------------------------------------
\* Properties of adding and extracting memories
\* ------------------------------------------------------------------------
\* a memory as addMemory creates it at the current time
FreshlyAdded(m) ==
  /\ m.id \notin Ids(Before)
  /\ m.createdAt = now /\ m.updatedAt = now /\ m.lastAccessedAt = now
  /\ m.accessCount = 0 /\ ~m.pinned /\ m.embedding = NoEmbedding
  /\ m.importance = (IF m.source = "manual" THEN 60 ELSE 40) * ImpScale

\* C17: addMemory adds exactly one memory, with a fresh id, all three
\* timestamps at the current time, accessCount 0, unpinned, without
\* embedding and with importance 60 (manual) or 40 (auto), and leaves the
\* existing memories as they were; extraction adds its memories the same
\* way; no two stored memories ever share an id.
C17_AddMemory ==
  /\ \A i, j \in 1..Len(memories) : i # j => memories[i].id # memories[j].id
  /\ last.op = "addMemory" =>
       /\ Len(memories) = Len(Before) + 1
       /\ Tail(memories) = Before
       /\ Head(memories).id = last.id
       /\ Head(memories).source = "manual"
       /\ FreshlyAdded(Head(memories))
  /\ last.op = "extractAndSaveMemories" =>
       /\ Len(memories) >= Len(Before)
       /\ SubSeq(memories, Len(memories) - Len(Before) + 1, Len(memories)) = Before
       /\ \A i \in 1..(Len(memories) - Len(Before)) :
            memories[i].source = "auto" /\ FreshlyAdded(memories[i])

C17_Witness ==
  /\ last.op = "addMemory"
  /\ now > 0
  /\ \E i \in 1..Len(Before) : Before[i].source = "auto" /\ Before[i].createdAt < now
  /\ Head(memories).importance = 60 * ImpScale

\* a line of the generated text after stripping its leading list marker
Stripped(line) == trim(stripMarker(trim(line)))

\* the lines C18 expects to be stored: neither empty nor the sentinel, and
\* 5 or more characters after stripping
Candidates(text) ==
  SelectSeq([i \in 1..Len(splitLines(text)) |-> Stripped(splitLines(text)[i])],
            LAMBDA c : c # <<>> /\ c # Sentinel /\ Len(c) >= 5)

\* C18: extractAndSaveMemories stores one auto memory per line of the
\* generated text that has 5 or more characters after stripping leading
\* list markers and is not the sentinel, in the order of the lines, and
\* nothing for the other lines.
C18_ExtractedLines ==
  (last.op = "extractAndSaveMemories" /\ last.ret[1].ok) =>
    LET k == Len(memories) - Len(Before)
        stored == [i \in 1..k |-> memories[k + 1 - i].content]
    IN stored = Candidates(last.ret[1].text)

\* C20: no write of the collection overwrites the effect of an operation
\* that completed after the collection was read: when the write of an
\* embedding attachment lands, the store holds the same memories as just
\* before it, and every memory other than the one attached is unchanged.
C20_NoLostUpdate ==
  last.op = "importStorageThen" =>
    /\ Ids(memories) = Ids(Before)
    /\ \A i \in 1..Len(Before) :
         Before[i].id # last.id => Lookup(memories, Before[i].id) = Before[i]

\* ------------------------------------------------------------------------
\* Lifecycle: one memory added at time 0 lives through days of sweeps,
\* retrieval hits and pin toggles, a day or more apart or one hour after the
\* start of a day
\* ------------------------------------------------------------------------
LifeWindow == 96

\* time passes
elapse(d) ==
  /\ now + d <= LifeWindow
  /\ now' = now + d
  /\ last' = Done("elapse", 0, <<>>)
  /\ UNCHANGED <<memories, settings, nextId, retr, pending>>

LifecycleSettings ==
  {[defaultMemorySettings EXCEPT !.enabled = TRUE, !.decayRate = r,
                                 !.maxMemoryCount = MaxMem] : r \in DecayRates}

InitLifecycle ==
  /\ settings \in LifecycleSettings
  /\ memories \in {<<NewMemory(1, <<"a">>, source, 0)>> : source \in Sources}
  /\ now = 0
  /\ nextId = 2
  /\ last = NoOp
  /\ retr = IdleRetrieval
  /\ pending = NoPending

NextLifecycle ==
  \/ \E d \in {Hour, Day, 3 * Day} : (d = Hour => now % Day = 0) /\ elapse(d)
  \/ decayMemories
  \/ pruneMemories
  \/ \E id \in Ids(memories) : recordMemoriesAccess({id})
  \/ \E id \in Ids(memories) :
       Lookup(memories, id).accessCount < MaxAccess /\ touchMemory(id)
  \/ \E id \in Ids(memories) : toggleMemoryPinned(id)

SpecLifecycle == InitLifecycle /\ [][NextLifecycle]_vars

\* ------------------------------------------------------------------------
\* Properties of the decay sweep
\* ------------------------------------------------------------------------
\* the importance a memory was created with
InitialImportance(m) == (IF m.source = "manual" THEN 60 ELSE 40) * ImpScale

\* C21: for an unpinned memory that was never accessed, the importance a
\* decay sweep persists is never below the initial importance decayed once
\* for the whole time since lastAccessedAt, however many sweeps ran before.
C21_DecayDoesNotCompound ==
  last.op = "decayMemories" =>
    \A i \in 1..Len(memories) :
      (~memories[i].pinned /\ memories[i].accessCount = 0
         /\ memories[i].lastAccessedAt = memories[i].createdAt) =>
        memories[i].importance >=
          calculateCurrentImportance([memories[i] EXCEPT !.importance = InitialImportance(memories[i])],
                                     settings.decayRate, now)

\* ------------------------------------------------------------------------
\* Attachment: the store right after an extraction, with the
\* generateEmbedding calls for the new memories still in flight, while the
\* user edits and deletes memories and retrieval records hits
\* ------------------------------------------------------------------------
\* the vector the embedding provider gives a text
Embed(content) ==
  IF includes(toLowerCase(content), Str_tea) THEN <<0, 1>> ELSE <<1, 0>>

\* the stores extraction leaves for the texts Str_list and Str_two
AttachStores ==
  {<<NewMemory(1, Str_likesTea, "auto", 0)>>,
   <<NewMemory(2, Str_DarkMode, "auto", 0), NewMemory(1, Str_likesTea, "auto", 0)>>}

InitAttach ==
  /\ settings = [defaultMemorySettings EXCEPT !.enabled = TRUE,
                                              !.toolModel = "deepseek:deepseek-chat"]
  /\ memories \in AttachStores
  /\ now = 0
  /\ nextId = Len(memories) + 1
  /\ last = NoOp
  /\ retr = IdleRetrieval
  /\ pending = [NoPending EXCEPT
                  !.embeddings = {Request(memories[i]) : i \in 1..Len(memories)}]

NextAttach ==
  \/ \E request \in pending.embeddings :
       \E e \in {<<>>, SomeEmbedding(Embed(request.content))} :
         generateEmbeddingThen(request, e)
  \/ \E save \in pending.saves : importStorageThen(save)
  \/ \E id \in Ids(memories) : updateMemory(id, Str_DarkMode)
  \/ \E id \in Ids(memories) : deleteMemory(id)
  \/ \E id \in Ids(memories) : recordMemoriesAccess({id})
  \/ now = 0 /\ Tick(Hour)

SpecAttach == InitAttach /\ [][NextAttach]_vars

\* ------------------------------------------------------------------------
\* Properties of the memory fields over time
\* ------------------------------------------------------------------------
\* C22: while a memory is in the store its accessCount is a non-negative
\* integer that no operation lowers.
C22_AccessCountMonotone ==
  \A i \in 1..Len(memories) :
    /\ memories[i].accessCount \in Nat
    /\ memories[i].id \in Ids(Before) =>
         memories[i].accessCount >= Lookup(Before, memories[i].id).accessCount

\* C23: a memory's updatedAt changes only when its content, importance or
\* pinned flag changes; recording an access or attaching an embedding leaves
\* it as it was.
C23_UpdatedAtFrame ==
  \A i \in 1..Len(memories) :
    memories[i].id \in Ids(Before) =>
      LET old == Lookup(Before, memories[i].id)
      IN memories[i].updatedAt # old.updatedAt =>
           \/ memories[i].content # old.content
           \/ memories[i].importance # old.importance
           \/ memories[i].pinned # old.pinned

\* C24: the stored importance of every memory lies within [0, 100] after
\* any sequence of add, access recording, touchMemory, pin toggle, decay
\* sweep and prune.
C24_ImportanceInRange ==
  \A i \in 1..Len(memories) :
    /\ memories[i].importance >= 0
    /\ memories[i].importance <= MaxImportance * ImpScale

\* a touched memory sitting at the upper end of the range
C24_Witness ==
  /\ last.op = "touchMemory"
  /\ \E i \in 1..Len(memories) :
       /\ memories[i].id = last.id
       /\ memories[i].importance = MaxImportance * ImpScale
       /\ Lookup(Before, last.id).importance = MaxImportance * ImpScale

\* C25: a stored embedding was generated from the memory's current content;
\* a vector computed from an older content is never attached, also when the
\* content is edited while the embedding request is in flight.
\* Stated for the moment of attachment: a memory that gains an embedding
\* when the write of an attachment lands holds the vector of the content it
\* then has.
C25_EmbeddingMatchesContent ==
  last.op = "importStorageThen" =>
    \A i \in 1..Len(memories) :
      (/\ HasEmbedding(memories[i])
       /\ memories[i].id \in Ids(Before)
       /\ ~HasEmbedding(Lookup(Before, memories[i].id))) =>
        memories[i].embedding = SomeEmbedding(Embed(memories[i].content))

\* C26: once a memory is removed (deleteMemory, clearAllMemories, prune) no
\* later operation puts its id back: an embedding attachment that was in
\* progress and an access recording leave a removed memory removed.
C26_RemovedStaysRemoved ==
  last.op \in {"generateEmbeddingThen", "importStorageThen", "recordMemoriesAccess"} =>
    Ids(memories) \subseteq Ids(Before)

\* C27: every maintenance trigger runs the decay sweep followed by the prune
\* sweep: the completion of a turn under cleanupFrequency after_chat leaves
\* the store as decay-then-prune leaves it, as the 24-hour timer does.
C27_TurnRunsDecayThenPrune ==
  (last.op = "onComplete" /\ cleanupAfterChat(settings)) =>
    memories = pruneMemoriesResult(decayMemoriesResult(Before, settings, now), settings)

\* C28: a decay sweep changes a memory's stored importance only if its
\* updatedAt is more than 1 hour old and the new value differs from the
\* stored one by more than 1.0; no memory is added or removed, and content,
\* accessCount, lastAccessedAt, pinned and embedding stay as they were.
C28_DecayFrame ==
  last.op = "decayMemories" =>
    /\ Len(memories) = Len(Before)
    /\ \A i \in 1..Len(memories) :
         /\ memories[i].id = Before[i].id
         /\ memories[i].content = Before[i].content
         /\ memories[i].accessCount = Before[i].accessCount
         /\ memories[i].lastAccessedAt = Before[i].lastAccessedAt
         /\ memories[i].pinned = Before[i].pinned
         /\ memories[i].embedding = Before[i].embedding
         /\ memories[i].importance # Before[i].importance =>
              /\ now - Before[i].updatedAt > Hour
              /\ Abs(memories[i].importance - Before[i].importance) > DecayMinDelta * ImpScale

\* ------------------------------------------------------------------------
\* Retrieval over a store that holds a vector of another dimension, as left
\* behind when the embedding model is changed
\* ------------------------------------------------------------------------
OtherDimension ==
  [NewMemory(2, Str_tea, "auto", 4) EXCEPT !.embedding = SomeEmbedding(<<1, 0, 0>>)]

DimensionStores ==
  {<<OtherDimension>>,
   <<OtherDimension, RetrievalMemory(3)>>,
   <<RetrievalMemory(1), OtherDimension>>}

DimensionSettings ==
  {st \in RetrievalSettings : st.enabled /\ st.autoRetrieve /\ st.maxRetrieveCount < MaxStored}

InitDimension ==
  /\ settings \in DimensionSettings
  /\ memories \in DimensionStores
  /\ now = RetrieveTime
  /\ nextId = MaxStored + 1
  /\ last = NoOp
  /\ retr = IdleRetrieval
  /\ pending = NoPending

SpecDimension == InitDimension /\ [][NextRetrieval]_vars

\* C29: a stored embedding whose length differs from the length of the query
\* vector is left out of the semantic ranking, for every similarityThreshold
\* including 0: no semantic result carries such an embedding.
C29_OtherDimensionExcluded ==
  (Returned /\ retr.path = "semantic") =>
    \A i \in 1..Len(Results) :
      Len(Lookup(Snapshot, Results[i].id).embedding[1]) = Len(retr.queryEmbedding[1])

\* ------------------------------------------------------------------------
\* Embedding backfill (contextInjection.ts generateEmbeddingsForMemories,
\* embedding ensureMemoryEmbeddings): a loop over the memories of a snapshot
\* that have no vector. backfill.lacking holds their ids in store order,
\* todo the requests not yet made, outstanding the requests awaiting their
\* answer, issued the ids requested so far, failed the ids answered null.
\* ------------------------------------------------------------------------
backfillRequests(mems) ==
  LET lacking == SelectSeq(mems, LAMBDA m : ~HasEmbedding(m))
  IN [i \in 1..Len(lacking) |-> Request(lacking[i])]

\* the top of the for loop: await generateEmbedding(memory.content) for the
\* next memory, or leave the loop
issueNextRequest(b) ==
  IF b.todo = <<>> THEN [b EXCEPT !.pc = "done"]
  ELSE [b EXCEPT !.pc = "awaiting",
                 !.todo = Tail(@),
                 !.outstanding = @ \cup {Head(b.todo)},
                 !.issued = Append(@, Head(b.todo).id)]

\* a backfill function is called: it reads the store and enters its loop
startBackfill(kind, mems) ==
  LET todo == backfillRequests(mems)
  IN issueNextRequest([NoBackfill EXCEPT !.kind = kind,
                                         !.lacking = [i \in 1..Len(todo) |-> todo[i].id],
                                         !.todo = todo])

generateEmbeddingsForMemories ==
  /\ pending.backfill.pc = "idle"
  /\ pending' = [pending EXCEPT
                   !.backfill = startBackfill("generateEmbeddingsForMemories", memories)]
  /\ last' = Done("generateEmbeddingsForMemories", 0, <<>>)
  /\ UNCHANGED <<memories, settings, now, nextId, retr>>

ensureMemoryEmbeddings ==
  /\ pending.backfill.pc = "idle"
  /\ pending' = [pending EXCEPT
                   !.backfill = startBackfill("ensureMemoryEmbeddings", memories)]
  /\ last' = Done("ensureMemoryEmbeddings", 0, <<>>)
  /\ UNCHANGED <<memories, settings, now, nextId, retr>>

\* the awaited generateEmbedding call returns null (<<>>) or a vector.
\* ensureMemoryEmbeddings attaches with storage's updateMemoryEmbedding and
\* goes on to the next memory; generateEmbeddingsForMemories attaches with
\* contextInjection's updateMemoryEmbedding (deferred write) and sleeps
backfillEmbeddingReturn(request, embedding) ==
  /\ request \in pending.backfill.outstanding
  /\ LET b == [pending.backfill EXCEPT
                 !.outstanding = @ \ {request},
                 !.failed = IF embedding = <<>> THEN @ \cup {request.id} ELSE @]
     IN IF b.kind = "ensureMemoryEmbeddings"
        THEN /\ memories' = IF embedding # <<>> /\ request.id \in Ids(memories)
                            THEN [memories EXCEPT
                                    ![IndexOf(memories, request.id)].embedding = embedding]
                            ELSE memories
             /\ pending' = [pending EXCEPT !.backfill = issueNextRequest(b)]
        ELSE /\ memories' = memories
             /\ pending' = [pending EXCEPT
                              !.saves = IF embedding # <<>>
                                        THEN deferMemoryEmbedding(@, memories, request.id,
                                                                  embedding, now)
                                        ELSE @,
                              !.backfill = [b EXCEPT !.pc = "delay"]]
  /\ last' = Done("backfillEmbeddingReturn", request.id, embedding)
  /\ UNCHANGED <<settings, now, nextId, retr>>

\* the 200 ms pause of generateEmbeddingsForMemories ends
backfillDelayElapsed ==
  /\ pending.backfill.pc = "delay"
  /\ pending' = [pending EXCEPT !.backfill = issueNextRequest(@)]
  /\ last' = Done("backfillDelayElapsed", 0, <<>>)
  /\ UNCHANGED <<memories, settings, now, nextId, retr>>

BackfillMemory(i) ==
  CASE i = 1 -> NewMemory(1, Str_likesTea, "auto", 0)
    [] i = 2 -> NewMemory(2, Str_DarkMode, "manual", 0)
    [] i = 3 -> NewMemory(3, Str_tea, "manual", 0)
    [] OTHER -> [NewMemory(i, Str_modeOn, "auto", 0) EXCEPT !.embedding = SomeEmbedding(<<1, 0>>)]

BackfillStores ==
  {Restrict([i \in 1..MaxMem + 1 |-> BackfillMemory(i)], S) : S \in SUBSET (1..MaxMem + 1)}

InitBackfill ==
  /\ settings = [defaultMemorySettings EXCEPT !.enabled = TRUE]
  /\ memories \in BackfillStores
  /\ now = 0
  /\ nextId = MaxMem + 2
  /\ last = NoOp
  /\ retr = IdleRetrieval
  /\ pending = NoPending

NextBackfill ==
  \/ generateEmbeddingsForMemories
  \/ ensureMemoryEmbeddings
  \/ \E request \in pending.backfill.outstanding :
       \E e \in {<<>>, SomeEmbedding(Embed(request.content))} :
         backfillEmbeddingReturn(request, e)
  \/ backfillDelayElapsed
  \/ \E save \in pending.saves : importStorageThen(save)

SpecBackfill == InitBackfill /\ [][NextBackfill]_vars

Backfill == pending.backfill

IsPrefix(s, t) == Len(s) <= Len(t) /\ \A i \in 1..Len(s) : s[i] = t[i]

=============================================================================
